---- MODULE Spec2Model ----
(***************************************************************************)
(* A model of LapOptimizer's utils.py: the track geometry loader           *)
(* (TrackManager), the telemetry synthesizer and the optimization bridge   *)
(* (FastestLapWrapper), and the fastest_lap.py binding they call.          *)
(*                                                                         *)
(* Numbers.  Python floats are modelled in fixed point: every coordinate,  *)
(* distance, speed and time is an integer number of thousandths (SCALE).   *)
(* An Optional value is a sequence of length 0 (None) or 1 (the value).    *)
(*                                                                         *)
(* Evaluation.  Bind(e, LAMBDA v : body) is "v = e; body": it evaluates e  *)
(* once, as an assignment to a local does, where a LET would evaluate it   *)
(* again at every use.                                                     *)
(***************************************************************************)
EXTENDS Integers, Sequences, FiniteSets, TLC

\* ------------------------------------------------------------------- state
VARIABLES
    files,       \* the track directory: variant suffix -> Optional document
    mock_mode,   \* FastestLapWrapper.mock_mode
    lib,         \* FastestLapWrapper.lib: None, or the imported module
    backend,     \* the backend's tables: registered vehicles and tracks, and
                 \* the output variables held under the prefix run/, by name
    hashseed,    \* the interpreter's per-process hash seed
    clock,       \* the wall clock
    ret,         \* the last call: its name, arguments and return value
    obs,         \* what the last call did: the file it parsed, the curvature
                 \* it computed, whether it repeated the call before it, the
                 \* backend run it started
    store,       \* the result store on disk: the rows of summary.csv, the
                 \* files of the telemetry directory, and the history of
                 \* the run ids save_run returned
    inflight     \* the live optimize calls that run step by step, by vehicle
                 \* label: the position of the call, its locals, its result

vars == <<files, mock_mode, lib, backend, hashseed, clock, ret, obs, store, inflight>>

\* ------------------------------------------------------------------ bounds
\* Largest coordinate / elevation value written in a track file (whole units).
MaxCoord == 2
\* Largest number of samples of a channel in a track file.
MaxLen == 3

\* ------------------------------------------------------- fixed-point basics
\* Thousandths: the resolution of the fixed-point floats.
SCALE == 10 ^ 3

None == <<>>
Some(v) == <<v>>
IsNone(o) == o = <<>>
Val(o) == o[1]
\* Python truthiness of an Optional list: not None and not empty.
Truthy(o) == o # <<>> /\ Len(o[1]) > 0

Bind(e, F(_)) == CHOOSE r \in {F(v) : v \in {e}} : TRUE

Abs(a) == IF a < 0 THEN -a ELSE a
Max2(a, b) == IF a >= b THEN a ELSE b
Min2(a, b) == IF a <= b THEN a ELSE b

RECURSIVE SqrtSearch(_, _, _)
\* The largest r in lo..hi-1 with r*r <= n, by bisection (lo*lo <= n < hi*hi).
SqrtSearch(n, lo, hi) ==
    IF hi - lo <= 1 THEN lo
    ELSE Bind((lo + hi) \div 2,
              LAMBDA mid : IF mid * mid <= n THEN SqrtSearch(n, mid, hi)
                           ELSE SqrtSearch(n, lo, mid))

\* floor(sqrt(n)) for 0 <= n < 2^31.
ISqrt(n) == Bind(n, LAMBDA m : SqrtSearch(m, 0, 46341))

\* math.sqrt(dx*dx + dy*dy) on fixed-point arguments, result in thousandths.
\* Large arguments lose their low digits first, as a float mantissa does.
Hypot(dx, dy) ==
    IF Abs(dx) < 30000 /\ Abs(dy) < 30000
    THEN ISqrt(dx * dx + dy * dy)
    ELSE SCALE * ISqrt((dx \div SCALE) * (dx \div SCALE) + (dy \div SCALE) * (dy \div SCALE))

RECURSIVE Tabulate(_, _)
\* The sequence <<F(1), ..., F(n)>>, built element by element.
Tabulate(F(_), n) == IF n = 0 THEN <<>> ELSE Append(Tabulate(F, n - 1), F(n))

RECURSIVE SumUpTo(_, _)
SumUpTo(q, n) == IF n = 0 THEN 0 ELSE SumUpTo(q, n - 1) + q[n]
SumSeq(q) == SumUpTo(q, Len(q))

RECURSIVE MaxUpTo(_, _)
MaxUpTo(q, n) == IF n = 1 THEN q[1] ELSE Bind(MaxUpTo(q, n - 1), LAMBDA m : Max2(m, q[n]))
\* np.max of a non-empty sequence.
MaxSeq(q) == MaxUpTo(q, Len(q))

\* ------------------------------------------------------------ track files
\* The three file variants of a track, in the order the code probes them.
possible_files == <<"_3d.xml", "_adapted.xml", ".xml">>

\* The numeric tokens a channel text may hold, and one that float() rejects.
NumRange == (0 - 9)..9
NumTokens == {ToString(n) : n \in NumRange}
TokenValue == [tok \in NumTokens |-> CHOOSE n \in NumRange : ToString(n) = tok]
BadToken == "abc"

\* float(v) of one comma-separated token: the value in thousandths, or a
\* ValueError (exc) when the token is not a number.
Float(tok) ==
    IF tok \in NumTokens
    THEN [exc |-> FALSE, val |-> SCALE * TokenValue[tok]]
    ELSE [exc |-> TRUE, val |-> 0]

\* parse_csv_node: None when the child is absent or its text is empty, the
\* list of floats otherwise; exc when a token does not parse.
ParseCsvNode(node, key) ==
    Bind(node[key], LAMBDA child :
        IF IsNone(child) \/ Val(child) = <<>>
        THEN [exc |-> FALSE, val |-> None]
        ELSE Bind(Val(child), LAMBDA text :
                 IF \E i \in 1..Len(text) : Float(text[i]).exc
                 THEN [exc |-> TRUE, val |-> None]
                 ELSE [exc |-> FALSE,
                       val |-> Some(Tabulate(LAMBDA i : Float(text[i]).val, Len(text)))]))

Zeros(n) == Tabulate(LAMBDA i : 0, n)

\* get_coords: (None, None, None) for an absent section, three empty lists
\* when x or y is missing, and otherwise x, y and z with a missing z filled
\* with zeros of the length of x.
GetCoords(data_node, section_name) ==
    Bind(data_node[section_name], LAMBDA sec :
        IF IsNone(sec)
        THEN [exc |-> FALSE, x |-> None, y |-> None, z |-> None]
        ELSE Bind(ParseCsvNode(Val(sec), "x"), LAMBDA xs :
             Bind(ParseCsvNode(Val(sec), "y"), LAMBDA ys :
             Bind(ParseCsvNode(Val(sec), "z"), LAMBDA zs :
                 IF xs.exc \/ ys.exc \/ zs.exc
                 THEN [exc |-> TRUE, x |-> None, y |-> None, z |-> None]
                 ELSE IF IsNone(xs.val) \/ IsNone(ys.val)
                 THEN [exc |-> FALSE, x |-> Some(<<>>), y |-> Some(<<>>), z |-> Some(<<>>)]
                 ELSE [exc |-> FALSE, x |-> xs.val, y |-> ys.val,
                       z |-> IF IsNone(zs.val) THEN Some(Zeros(Len(Val(xs.val))))
                             ELSE zs.val]))))

RECURSIVE ArclengthSegments(_, _, _)
\* Variant: each entry is the distance from the previous sample alone.
ArclengthSegments(cx, cy, n) ==
    IF n = 1 THEN <<0>>
    ELSE Append(ArclengthSegments(cx, cy, n - 1),
                Hypot(cx[n] - cx[n - 1], cy[n] - cy[n - 1]))

RECURSIVE ArclengthUpTo(_, _, _)
\* The derived arclength list after the loop has appended sample n (1-based):
\* s = [0.0], then s.append(s[-1] + dist) for each next sample.
ArclengthUpTo(cx, cy, n) ==
    IF n = 1 THEN <<0>>
    ELSE Bind(ArclengthUpTo(cx, cy, n - 1), LAMBDA prev :
             Append(prev, prev[n - 1] + Hypot(cx[n] - cx[n - 1], cy[n] - cy[n - 1])))

\* tan(d degrees) in thousandths, d = 0..89 at index d+1.
TanMilli == <<0, 17, 35, 52, 70, 87, 105, 123, 141, 158, 176, 194, 213, 231, 249, 268, 287, 306, 325, 344, 364, 384, 404, 424, 445, 466, 488, 510, 532, 554, 577, 601, 625, 649, 675, 700, 727, 754, 781, 810, 839, 869, 900, 933, 966, 1000, 1036, 1072, 1111, 1150, 1192, 1235, 1280, 1327, 1376, 1428, 1483, 1540, 1600, 1664, 1732, 1804, 1881, 1963, 2050, 2145, 2246, 2356, 2475, 2605, 2747, 2904, 3078, 3271, 3487, 3732, 4011, 4331, 4705, 5145, 5671, 6314, 7115, 8144, 9514, 11430, 14301, 19081, 28636, 57290>>

\* math.degrees(math.atan2(dz, w)) for w > 0, in thousandths of a degree,
\* truncated to whole degrees: the largest d with tan(d) <= |dz| / w.
Atan2Deg(dz, w) ==
    Bind(CHOOSE k \in 0..89 :
             /\ TanMilli[k + 1] * w <= Abs(dz) * SCALE
             /\ (k = 89 \/ TanMilli[k + 2] * w > Abs(dz) * SCALE),
         LAMBDA d : IF dz < 0 THEN 0 - d * SCALE ELSE d * SCALE)

\* The horizontal offset below which a banking sample is reported as 0
\* (0.1, in thousandths).
W_HORIZ_MIN == 100

\* One sample of the banking loop.
\* Variant: the angle is computed whatever the horizontal offset.
BankingAtAnyOffset(lx, ly, lz, rx, ry, rz, i) ==
    Atan2Deg(rz[i] - lz[i], Hypot(rx[i] - lx[i], ry[i] - ly[i]))
BankingAt(lx, ly, lz, rx, ry, rz, i) ==
    Bind(Hypot(rx[i] - lx[i], ry[i] - ly[i]), LAMBDA w_horiz :
        IF w_horiz > W_HORIZ_MIN THEN Atan2Deg(rz[i] - lz[i], w_horiz) ELSE 0)

\* The "right boundary naming check": the section right_boundary when the
\* document has it, right_measured_boundary otherwise.
\* Variant: only right_boundary is looked up.
RightCoordsOneName(data_node) ==
    GetCoords(data_node, "right_boundary")
RightCoords(data_node) ==
    IF IsNone(data_node["right_boundary"])
    THEN GetCoords(data_node, "right_measured_boundary")
    ELSE GetCoords(data_node, "right_boundary")

\* The body of load_track_data's try block on a parsed document with a data
\* node: exc stands for any exception raised inside it.
LoadFromData(data_node) ==
    Bind(GetCoords(data_node, "centerline"), LAMBDA cl :
    Bind(GetCoords(data_node, "left_boundary"), LAMBDA left :
    Bind(RightCoords(data_node), LAMBDA right :
    Bind(ParseCsvNode(data_node, "arclength"), LAMBDA s0 :
    LET derive == ~s0.exc /\ IsNone(s0.val) /\ Truthy(cl.x)
        \* cl_y[i] raises IndexError when y is shorter than x
        deriveExc == derive /\ \E i \in 2..Len(Val(cl.x)) : i > Len(Val(cl.y))
        s == IF derive /\ ~deriveExc
             THEN Some(ArclengthUpTo(Val(cl.x), Val(cl.y), Len(Val(cl.x))))
             ELSE s0.val
        compute == Truthy(left.z) /\ Truthy(right.z) /\ Len(Val(left.z)) = Len(Val(right.z))
        \* right_x[i], left_x[i], ... raise IndexError on a shorter list
        bankExc == /\ compute
                   /\ \E i \in 1..Len(Val(left.z)) :
                         \/ i > Len(Val(left.x)) \/ i > Len(Val(left.y))
                         \/ i > Len(Val(right.x)) \/ i > Len(Val(right.y))
        \* len(cl_x) raises TypeError when the centerline section is absent
        zeroExc == ~compute /\ IsNone(cl.x)
        banking == IF compute
                   THEN Tabulate(LAMBDA i :
                            BankingAt(Val(left.x), Val(left.y), Val(left.z),
                                      Val(right.x), Val(right.y), Val(right.z), i),
                            Len(Val(left.z)))
                   ELSE Zeros(Len(Val(cl.x)))
    IN  IF cl.exc \/ left.exc \/ right.exc \/ s0.exc \/ deriveExc \/ bankExc \/ zeroExc
        THEN [exc |-> TRUE]
        ELSE [exc |-> FALSE,
              geometry |-> [centerline |-> [x |-> cl.x, y |-> cl.y, z |-> cl.z],
                            left |-> [x |-> left.x, y |-> left.y, z |-> left.z],
                            right |-> [x |-> right.x, y |-> right.y, z |-> right.z],
                            s |-> s,
                            banking |-> banking]]))))

\* The first existing variant of the track in probe order, as an index into
\* possible_files; 0 when none exists (the loop falls through).
\* Variant: the variants probed from the base file up.
LastExisting(dir) ==
    IF \E i \in 1..Len(possible_files) : ~IsNone(dir[possible_files[i]])
    THEN CHOOSE i \in 1..Len(possible_files) :
             /\ ~IsNone(dir[possible_files[i]])
             /\ \A j \in (i + 1)..Len(possible_files) : IsNone(dir[possible_files[j]])
    ELSE 0
FirstExisting(dir) ==
    IF \E i \in 1..Len(possible_files) : ~IsNone(dir[possible_files[i]])
    THEN CHOOSE i \in 1..Len(possible_files) :
             /\ ~IsNone(dir[possible_files[i]])
             /\ \A j \in 1..(i - 1) : IsNone(dir[possible_files[j]])
    ELSE 0

\* load_track_data on the track's directory: None (a failure) or a geometry.
LoadTrackData(dir) ==
    Bind(FirstExisting(dir), LAMBDA k :
        IF k = 0 THEN [kind |-> "None"]
        ELSE Bind(Val(dir[possible_files[k]]), LAMBDA doc :
                 IF ~doc.wellformed \/ IsNone(doc.data) THEN [kind |-> "None"]
                 ELSE Bind(LoadFromData(Val(doc.data)), LAMBDA r :
                          IF r.exc THEN [kind |-> "None"]
                          ELSE [kind |-> "geometry", geometry |-> r.geometry])))

\* get_track_xml_path: the first existing variant, or the _adapted.xml path
\* when none exists.
GetTrackXmlPath(dir) ==
    Bind(FirstExisting(dir), LAMBDA k :
        IF k = 0 THEN possible_files[2] ELSE possible_files[k])

\* ------------------------------------------------- fixed-point arithmetic
\* A value that is not a finite number (0/0, or anything computed from it).
\* Every finite value the synthesizer computes is >= 0.
NaN == 0 - 1
IsNaN(v) == v = NaN

\* a * b for two fixed-point values, in thousandths, without leaving 32 bits.
MulF(a, b) == (a \div SCALE) * b + ((a % SCALE) * b) \div SCALE

RECURSIVE LongDivStep(_, _, _)
\* <<quotient, remainder>> of a * 10^digits divided by b, one digit at a time.
LongDivStep(a, b, digits) ==
    IF digits = 0 THEN <<a \div b, a % b>>
    ELSE Bind(LongDivStep(a, b, digits - 1), LAMBDA p :
             <<p[1] * 10 + (p[2] * 10) \div b, (p[2] * 10) % b>>)

\* floor(a * 10^digits / b) for a >= 0, b > 0.
LongDiv(a, b, digits) ==
    Bind(a, LAMBDA a0 : Bind(b, LAMBDA b0 : LongDivStep(a0, b0, digits)[1]))

\* np.gradient of a sequence of two or more samples: one-sided differences at
\* both ends, centered differences (f[i+1] - f[i-1]) / 2 inside.
Gradient(f) ==
    Bind(f, LAMBDA g :
        Tabulate(LAMBDA i : IF i = 1 THEN g[2] - g[1]
                            ELSE IF i = Len(g) THEN g[Len(g)] - g[Len(g) - 1]
                            ELSE (g[i + 1] - g[i - 1]) \div 2, Len(g)))

\* ------------------------------------------------- telemetry synthesizer
\* Semi-axes of the fallback ellipse (whole units).
ELLIPSE_A == 500
ELLIPSE_B == 300

\* cos and sin of k eighths of a turn, in thousandths.
CosEighth(k) == <<1000, 707, 0, -707, -1000, -707, 0, 707>>[(k % 8) + 1]
SinEighth(k) == <<0, 707, 1000, 707, 0, -707, -1000, -707>>[(k % 8) + 1]

\* Point counts passed to optimize, among those (of two or more points) for
\* which np.linspace(0, 2*pi, n) falls on eighths of a turn.
NPointsArgs == {2, 3, 9}

\* The fallback path: t = np.linspace(0, 2*pi, n); 500*cos(t), 300*sin(t).
EllipseX(n) ==
    Tabulate(LAMBDA i : ELLIPSE_A
                 * CosEighth(IF n = 1 THEN 0 ELSE ((i - 1) * 8) \div (n - 1)), n)
EllipseY(n) ==
    Tabulate(LAMBDA i : ELLIPSE_B
                 * SinEighth(IF n = 1 THEN 0 ELSE ((i - 1) * 8) \div (n - 1)), n)

RECURSIVE PathDistance(_, _, _)
\* s after the loop has filled entry n: s[0] = 0, s[i] = s[i-1] + dist.
PathDistance(x, y, n) ==
    IF n = 1 THEN <<0>>
    ELSE Bind(PathDistance(x, y, n - 1), LAMBDA prev :
             Append(prev, prev[n - 1] + Hypot(x[n] - x[n - 1], y[n] - y[n - 1])))

\* The denominator (dx^2 + dy^2)^1.5 is r^3 with r = sqrt(dx^2 + dy^2); it is
\* below 1e-6 exactly when r is below 0.01, and the floor 1e-6 is 0.01^3.
\* The denominator is held by its cube root r, in thousandths.
DEN_ROOT_FLOOR == 10

\* denominator[denominator < 1e-6] = 1e-6, on the cube root.
\* Variant: the denominator used as computed, without the floor.
UnclampedDenominator(r) == r
ClampDenominator(r) == Bind(r, LAMBDA r0 : IF r0 < DEN_ROOT_FLOOR THEN DEN_ROOT_FLOOR ELSE r0)

\* numerator / denominator, in millionths; 0/0 is NaN.
CurvatureAt(dx, dy, ddx, ddy) ==
    Bind(Abs(MulF(dx, ddy) - MulF(dy, ddx)), LAMBDA numerator :
    Bind(ClampDenominator(Hypot(dx, dy)), LAMBDA r :
        IF r = 0 THEN NaN
        ELSE LongDiv(LongDiv(LongDiv(numerator, r, 3), r, 3), r, 6)))

\* The curvature of every sample of the path (two or more samples).
Curvature(x, y) ==
    Bind(Gradient(x), LAMBDA dx :
    Bind(Gradient(y), LAMBDA dy :
    Bind(Gradient(dx), LAMBDA ddx :
    Bind(Gradient(dy), LAMBDA ddy :
        Tabulate(LAMBDA i : CurvatureAt(dx[i], dy[i], ddx[i], ddy[i]), Len(x))))))

\* int(hashlib.sha256(name.encode()).hexdigest(), 16) % 100 of the labels used.
Labels == {"car_A", "car_B", "f1"}
\* Variant: the label hashed with the interpreter's builtin hash(), which is
\* salted with the per-process seed.
BuiltinHashMod100(vehicle_name) ==
    ((CASE vehicle_name = "car_A" -> 37
        [] vehicle_name = "car_B" -> 82
        [] vehicle_name = "f1" -> 69) + 31 * hashseed) % 100
Sha256Mod100(vehicle_name) ==
    CASE vehicle_name = "car_A" -> 37
      [] vehicle_name = "car_B" -> 82
      [] vehicle_name = "f1" -> 69

\* max_speed and min_speed in thousandths of m/s:
\* (300 / 3.6) * (1 + (h - 50) / 500) and (60 / 3.6) * (1 + (h - 50) / 500).
MaxSpeed(h) == (300 * SCALE * 10 * (500 + h - 50)) \div (36 * 500)
MinSpeed(h) == (60 * SCALE * 10 * (500 + h - 50)) \div (36 * 500)

\* k ** 0.3 for k in [0, 1], both in thousandths: the exact value at the
\* break points, linear in between.
PowBreaks == <<0, 1, 10, 50, 100, 200, 300, 400, 500, 600, 700, 800, 900, 1000>>
PowValues == <<0, 126, 251, 407, 501, 617, 697, 760, 812, 858, 899, 935, 969, 1000>>
Pow03(k0) ==
    Bind(k0, LAMBDA k :
    IF k >= 1000 THEN 1000
    ELSE Bind(CHOOSE i \in 1..(Len(PowBreaks) - 1) : PowBreaks[i] <= k /\ k < PowBreaks[i + 1],
              LAMBDA j : PowValues[j] + ((PowValues[j + 1] - PowValues[j]) * (k - PowBreaks[j]))
                                            \div (PowBreaks[j + 1] - PowBreaks[j])))

\* The rolling window of pandas' rolling(10, center=True): samples i-5..i+4.
ROLL_WINDOW == 10

\* Variant: the window sum divided by the window size, also at the two ends
\* of the series where the window holds fewer samples.
RollingMeanFullWindow(u) ==
    Bind(u, LAMBDA raw :
        Tabulate(LAMBDA i :
            Bind(SubSeq(raw, Max2(1, i - ROLL_WINDOW \div 2),
                        Min2(Len(raw), i + ROLL_WINDOW \div 2 - 1)),
                 LAMBDA window : SumSeq(window) \div ROLL_WINDOW), Len(raw)))

\* rolling(10, center=True, min_periods=1).mean(): the mean of the samples of
\* the window that exist.
RollingMean(u) ==
    Bind(u, LAMBDA raw :
        Tabulate(LAMBDA i :
            Bind(SubSeq(raw, Max2(1, i - ROLL_WINDOW \div 2),
                        Min2(Len(raw), i + ROLL_WINDOW \div 2 - 1)),
                 LAMBDA window : SumSeq(window) \div Len(window)), Len(raw)))

\* The epsilon added to the largest curvature (1e-6, in millionths).
NORM_EPS == 1

\* The speed channel: k_norm = curvature / (max + 1e-6), then
\* u = max_speed - (max_speed - min_speed) * k_norm ** 0.3, smoothed.
\* A NaN curvature makes np.max, k_norm and every speed NaN.
Speed(curvature, vehicle_name) ==
    Bind(Sha256Mod100(vehicle_name), LAMBDA h :
    Bind(MaxSpeed(h), LAMBDA max_speed :
    Bind(MinSpeed(h), LAMBDA min_speed :
        IF \E i \in 1..Len(curvature) : IsNaN(curvature[i])
        THEN Tabulate(LAMBDA i : NaN, Len(curvature))
        ELSE Bind(MaxSeq(curvature) + NORM_EPS, LAMBDA kmax :
                 RollingMean(Tabulate(LAMBDA i :
                     max_speed - ((max_speed - min_speed)
                         * Pow03(LongDiv(curvature[i], kmax, 3))) \div SCALE,
                     Len(curvature)))))))

RECURSIVE IntegrateTimeSteps(_, _, _)
\* Variant: each entry is the duration of its own step, not the running sum.
IntegrateTimeSteps(s, u, n) ==
    IF n = 1 THEN <<0>>
    ELSE Append(IntegrateTimeSteps(s, u, n - 1),
                LongDiv(s[n] - s[n - 1], Max2((u[n] + u[n - 1]) \div 2, SCALE), 3))

RECURSIVE IntegrateTime(_, _, _)
\* time after the loop has filled entry n: time[0] = 0,
\* time[i] = time[i-1] + ds / max(avg_v, 1.0).
IntegrateTime(s, u, n) ==
    IF n = 1 THEN <<0>>
    ELSE Bind(IntegrateTime(s, u, n - 1), LAMBDA prev :
             LET ds == s[n] - s[n - 1]
                 avg == (u[n] + u[n - 1]) \div 2
                 avg_v == IF avg < SCALE THEN SCALE ELSE avg
             IN  Append(prev, IF IsNaN(u[n]) \/ IsNaN(u[n - 1]) \/ IsNaN(prev[n - 1])
                              THEN NaN
                              ELSE prev[n - 1] + LongDiv(ds, avg_v, 3)))

\* The synthesizer's physics on the chosen path x, y with n_points samples:
\* the exception it raises, or the record and the curvature it computed.
MockPhysics(x0, y0, n_points, vehicle_name) ==
    Bind(x0, LAMBDA x : Bind(y0, LAMBDA y :
    IF \E i \in 2..n_points : i > Len(y)
    THEN [kind |-> "raise", exc |-> "IndexError"]       \* y[i] in the loop of s
    ELSE IF Len(x) < 2 \/ Len(y) < 2
    THEN [kind |-> "raise", exc |-> "ValueError"]       \* np.gradient
    ELSE IF Len(x) # Len(y)
    THEN [kind |-> "raise", exc |-> "ValueError"]       \* dx * ddy: shapes differ
    ELSE Bind(PathDistance(x, y, n_points), LAMBDA s :
         Bind(Curvature(x, y), LAMBDA curvature :
         Bind(Speed(curvature, vehicle_name), LAMBDA u :
             [kind |-> "record", x |-> x, y |-> y, u |-> u,
              time |-> IntegrateTime(s, u, n_points), s |-> s,
              curvature |-> curvature])))))

\* _generate_mock_data: data is what load_track_data returned for the track
\* (None also stands for a track name that is empty, so that no load is tried).
GenerateMockData(n_points, data0, vehicle_name) ==
    Bind(data0, LAMBDA data :
    IF data.kind = "geometry" /\ IsNone(data.geometry.centerline.x)
    THEN \* x = np.array(None); len(x) raises inside the try and again outside it
         [kind |-> "raise", exc |-> "TypeError"]
    ELSE IF data.kind = "geometry" /\ Len(Val(data.geometry.centerline.x)) > 0
    THEN MockPhysics(Val(data.geometry.centerline.x), Val(data.geometry.centerline.y),
                     Len(Val(data.geometry.centerline.x)), vehicle_name)
    ELSE Bind(IF data.kind = "geometry" THEN 0 ELSE n_points, LAMBDA n :
             MockPhysics(EllipseX(n), EllipseY(n), n, vehicle_name)))

\* ------------------------------------------------------------------- state
\* The name of the one track directory of the model; every other name has none.
TRACK == "oval"
TrackNames == {TRACK, "ghost", ""}


NoFiles == [f \in {possible_files[i] : i \in 1..Len(possible_files)} |-> None]
Dir(track_name) == IF track_name = TRACK THEN files ELSE NoFiles

NoObs == [xml_path |-> None, curvature |-> None, again |-> FALSE, run |-> None]

\* FastestLapWrapper.__init__: mock mode exactly when the import fails.
Construct(import_ok) ==
    /\ mock_mode' = ~import_ok
    /\ lib' = IF import_ok THEN Some("fastest_lap") ELSE None

\* os.path.exists of the path get_track_xml_path returned for the track.
PathExists(track_name, suffix) == ~IsNone(Dir(track_name)[suffix])

\* The file load_track_data hands to ET.parse, if any.
ParsedPath(track_name) ==
    LET k == FirstExisting(Dir(track_name))
    IN  IF k = 0 THEN None ELSE Some(possible_files[k])

\* TrackManager().load_track_data(track_name)
DoLoadTrackData(track_name) ==
    /\ ret' = [op |-> "load_track_data", args |-> <<track_name>>,
               val |-> LoadTrackData(Dir(track_name))]
    /\ obs' = [NoObs EXCEPT !.xml_path = ParsedPath(track_name)]
    /\ UNCHANGED <<files, mock_mode, lib, backend, hashseed, clock, store, inflight>>

\* TrackManager().get_track_xml_path(track_name)
DoGetTrackXmlPath(track_name) ==
    /\ ret' = [op |-> "get_track_xml_path", args |-> <<track_name>>,
               val |-> GetTrackXmlPath(Dir(track_name))]
    /\ obs' = NoObs
    /\ UNCHANGED <<files, mock_mode, lib, backend, hashseed, clock, store, inflight>>

\* The telemetry record of a synthesizer result, without the locals.  A
\* channel of a record is a Python list ([list |-> ...]) or a float
\* ([float |-> ...]).
IsList(channel) == "list" \in DOMAIN channel
RecordOf(r) ==
    IF r.kind = "record"
    THEN [kind |-> "record", x |-> [list |-> r.x], y |-> [list |-> r.y],
          u |-> [list |-> r.u], time |-> [list |-> r.time], s |-> [list |-> r.s]]
    ELSE r

\* optimize in mock mode: return self._generate_mock_data(...)
OptimizeMock(vehicle_def, track_name, n_points) ==
    /\ mock_mode
    /\ \E r \in {GenerateMockData(n_points,
                                    IF track_name = "" THEN [kind |-> "None"]
                                    ELSE LoadTrackData(Dir(track_name)),
                                    vehicle_def)} :
           /\ ret' = [op |-> "optimize", args |-> <<vehicle_def, track_name, n_points>>,
                      val |-> RecordOf(r)]
           /\ obs' = [NoObs EXCEPT
                          !.curvature = IF r.kind = "record" THEN Some(r.curvature) ELSE None,
                          !.again = /\ ret.op = "optimize"
                                    /\ ret.args = <<vehicle_def, track_name, n_points>>]
    /\ UNCHANGED <<files, mock_mode, lib, backend, hashseed, clock, store, inflight>>

\* ------------------------------------------------------- live-backend mode
\* The ordered aliases of each logical field of the record.
AliasesX == <<"x", "chassis.position.x">>
AliasesY == <<"y", "chassis.position.y">>
AliasesU == <<"u", "chassis.velocity.x", "vehicle.velocity.x">>
AliasesTime == <<"time">>

\* get_var: the value of the first preferred key that run_data holds; a
\* KeyError (exc) when it holds none.
\* Variant: a field that no alias resolves defaults to an empty list.
GetVarDefault(keys, preferred) ==
    IF \E i \in 1..Len(preferred) : preferred[i] \in DOMAIN keys
    THEN [exc |-> FALSE,
          val |-> keys[preferred[CHOOSE i \in 1..Len(preferred) :
                                     /\ preferred[i] \in DOMAIN keys
                                     /\ \A j \in 1..(i - 1) : preferred[j] \notin DOMAIN keys]]]
    ELSE [exc |-> FALSE, val |-> [list |-> <<>>]]
\* Variant: the last alias of the list that is present wins.
GetVarLast(keys, preferred) ==
    IF \E i \in 1..Len(preferred) : preferred[i] \in DOMAIN keys
    THEN [exc |-> FALSE,
          val |-> keys[preferred[CHOOSE i \in 1..Len(preferred) :
                                     /\ preferred[i] \in DOMAIN keys
                                     /\ \A j \in (i + 1)..Len(preferred) :
                                            preferred[j] \notin DOMAIN keys]]]
    ELSE [exc |-> TRUE, val |-> None]
GetVar(keys, preferred) ==
    IF \E i \in 1..Len(preferred) : preferred[i] \in DOMAIN keys
    THEN [exc |-> FALSE,
          val |-> keys[preferred[CHOOSE i \in 1..Len(preferred) :
                                     /\ preferred[i] \in DOMAIN keys
                                     /\ \A j \in 1..(i - 1) : preferred[j] \notin DOMAIN keys]]]
    ELSE [exc |-> TRUE, val |-> None]

\* download_variables: a scalar variable comes back as a float, a vector
\* variable as a list, and a variable of any other type raises.
DownloadVariable(var) ==
    IF var.type = "scalar" THEN [exc |-> FALSE, val |-> [float |-> var.v[1]]]
    ELSE IF var.type = "vector" THEN [exc |-> FALSE, val |-> [list |-> var.v]]
    ELSE [exc |-> TRUE, val |-> None]

DownloadVariables(out) ==
    IF \E k \in DOMAIN out : DownloadVariable(out[k]).exc
    THEN [exc |-> TRUE, val |-> None]
    ELSE [exc |-> FALSE, val |-> [k \in DOMAIN out |-> DownloadVariable(out[k]).val]]

\* optimize on a live backend, for one run of the backend: run.raises when a
\* backend call raises, run.s the arclength the track download returns,
\* run.out the output variables the run leaves under the prefix.
\* Variant: an exception of the backend is passed on to the caller.
OptimizeLiveUnguarded(track_name, run) ==
    IF ~PathExists(track_name, GetTrackXmlPath(Dir(track_name))) THEN [kind |-> "None"]
    ELSE IF run.raises \/ DownloadVariables(run.out).exc
    THEN [kind |-> "raise", exc |-> "Exception"]
    ELSE Bind(DownloadVariables(run.out).val, LAMBDA run_data :
             IF \/ GetVar(run_data, AliasesX).exc \/ GetVar(run_data, AliasesY).exc
                \/ GetVar(run_data, AliasesU).exc \/ GetVar(run_data, AliasesTime).exc
             THEN [kind |-> "None"]
             ELSE [kind |-> "record", x |-> GetVar(run_data, AliasesX).val,
                   y |-> GetVar(run_data, AliasesY).val, u |-> GetVar(run_data, AliasesU).val,
                   time |-> GetVar(run_data, AliasesTime).val, s |-> [list |-> run.s]])

\* Variant: the arclength of the record is the backend's own channel when
\* the run left one.
OptimizeLiveBackendArclength(track_name, run) ==
    IF ~PathExists(track_name, GetTrackXmlPath(Dir(track_name))) THEN [kind |-> "None"]
    ELSE IF run.raises \/ DownloadVariables(run.out).exc THEN [kind |-> "None"]
    ELSE Bind(DownloadVariables(run.out).val, LAMBDA run_data :
             IF \/ GetVar(run_data, AliasesX).exc \/ GetVar(run_data, AliasesY).exc
                \/ GetVar(run_data, AliasesU).exc \/ GetVar(run_data, AliasesTime).exc
             THEN [kind |-> "None"]
             ELSE [kind |-> "record", x |-> GetVar(run_data, AliasesX).val,
                   y |-> GetVar(run_data, AliasesY).val, u |-> GetVar(run_data, AliasesU).val,
                   time |-> GetVar(run_data, AliasesTime).val,
                   s |-> IF "s" \in DOMAIN run_data THEN run_data["s"]
                         ELSE [list |-> run.s]])
OptimizeLiveResult(track_name, run) ==
    IF ~PathExists(track_name, GetTrackXmlPath(Dir(track_name))) THEN [kind |-> "None"]
    ELSE IF run.raises THEN [kind |-> "None"]
    ELSE LET run_data == DownloadVariables(run.out)
         IN  IF run_data.exc THEN [kind |-> "None"]
             ELSE LET x == GetVar(run_data.val, AliasesX)
                      y == GetVar(run_data.val, AliasesY)
                      u == GetVar(run_data.val, AliasesU)
                      time == GetVar(run_data.val, AliasesTime)
                  IN  IF x.exc \/ y.exc \/ u.exc \/ time.exc THEN [kind |-> "None"]
                      ELSE [kind |-> "record", x |-> x.val, y |-> y.val, u |-> u.val,
                            time |-> time.val, s |-> [list |-> run.s]]

\* optimal_laptime leaves the output variables of the run under the prefix
\* run/, in place of the variables of those names that were there.
WriteOutputs(outputs, out) ==
    Some(out @@ (IF IsNone(outputs) THEN <<>> ELSE Val(outputs)))

\* The backend after a live optimize: the run's output variables are held
\* under run/ until delete_variable("run/*"), which is not reached when
\* download_variables raises.
OptimizeLiveBackend(track_name, run, b) ==
    IF ~PathExists(track_name, GetTrackXmlPath(Dir(track_name))) \/ run.raises THEN b
    ELSE [b EXCEPT !.outputs = IF DownloadVariables(run.out).exc
                               THEN WriteOutputs(@, run.out) ELSE None]

OptimizeLive(vehicle_def, track_name, n_points, run) ==
    /\ ~mock_mode
    /\ ret' = [op |-> "optimize", args |-> <<vehicle_def, track_name, n_points>>,
               val |-> OptimizeLiveResult(track_name, run)]
    /\ backend' = OptimizeLiveBackend(track_name, run, backend)
    /\ obs' = [NoObs EXCEPT !.run = Some(run)]
    /\ UNCHANGED <<files, mock_mode, lib, hashseed, clock, store, inflight>>

\* optimize on a live backend, one backend call at a time.  A call of a
\* label is idle, begun (the arclength is downloaded), ran (optimal_laptime
\* returned), downloaded (download_variables returned) or done.
Idle == [pc |-> "idle", track |-> "", run |-> None, run_data |-> None,
         val |-> [kind |-> "None"]]
NoCalls == [v \in Labels |-> Idle]
Done(call, val) == [call EXCEPT !.pc = "done", !.run_data = None, !.val = val]

\* The record optimize builds from the downloaded variables and the arclength.
RecordFrom(run_data, s) ==
    IF \/ GetVar(run_data, AliasesX).exc \/ GetVar(run_data, AliasesY).exc
       \/ GetVar(run_data, AliasesU).exc \/ GetVar(run_data, AliasesTime).exc
    THEN [kind |-> "None"]
    ELSE [kind |-> "record", x |-> GetVar(run_data, AliasesX).val,
          y |-> GetVar(run_data, AliasesY).val, u |-> GetVar(run_data, AliasesU).val,
          time |-> GetVar(run_data, AliasesTime).val, s |-> [list |-> s]]

\* download_variables(prefix, variable_list) on the variables the backend
\* holds: a name that is not there has neither type and raises.
DownloadFrom(outputs, variable_list) ==
    IF IsNone(outputs) \/ \E k \in variable_list : k \notin DOMAIN Val(outputs)
    THEN [exc |-> TRUE, val |-> None]
    ELSE DownloadVariables([k \in variable_list |-> Val(outputs)[k]])

\* The pre-flight check and track_download_data(track_name, "arclength").
OptimizeBegin(vehicle_def, track_name, run) ==
    /\ ~mock_mode
    /\ inflight[vehicle_def].pc \in {"idle", "done"}
    /\ inflight' = [inflight EXCEPT ![vehicle_def] =
                        IF ~PathExists(track_name, GetTrackXmlPath(Dir(track_name)))
                        THEN Done([Idle EXCEPT !.track = track_name, !.run = Some(run)],
                                  [kind |-> "None"])
                        ELSE [Idle EXCEPT !.pc = "begun", !.track = track_name,
                                          !.run = Some(run)]]
    /\ UNCHANGED <<files, mock_mode, lib, backend, hashseed, clock, ret, obs, store>>

\* optimal_laptime(vehicle_def, track_name, s, options)
OptimizeRun(vehicle_def) ==
    /\ inflight[vehicle_def].pc = "begun"
    /\ \E run \in {Val(inflight[vehicle_def].run)} :
           IF run.raises
           THEN /\ inflight' = [inflight EXCEPT ![vehicle_def] = Done(@, [kind |-> "None"])]
                /\ UNCHANGED backend
           ELSE /\ inflight' = [inflight EXCEPT ![vehicle_def].pc = "ran"]
                /\ backend' = [backend EXCEPT !.outputs = WriteOutputs(@, run.out)]
    /\ UNCHANGED <<files, mock_mode, lib, hashseed, clock, ret, obs, store>>

\* download_variables(*ret): the variable list is that of the vehicle's run.
OptimizeDownload(vehicle_def) ==
    /\ inflight[vehicle_def].pc = "ran"
    /\ \E d \in {DownloadFrom(backend.outputs, DOMAIN Val(inflight[vehicle_def].run).out)} :
           inflight' = [inflight EXCEPT ![vehicle_def] =
                            IF d.exc THEN Done(@, [kind |-> "None"])
                            ELSE [@ EXCEPT !.pc = "downloaded", !.run_data = Some(d.val)]]
    /\ UNCHANGED <<files, mock_mode, lib, backend, hashseed, clock, ret, obs, store>>

\* delete_variable("run/*"), and the record is built and returned.
OptimizeFinish(vehicle_def) ==
    /\ inflight[vehicle_def].pc = "downloaded"
    /\ backend' = [backend EXCEPT !.outputs = None]
    /\ inflight' = [inflight EXCEPT ![vehicle_def] =
                        Done(@, RecordFrom(Val(@.run_data), Val(@.run).s))]
    /\ UNCHANGED <<files, mock_mode, lib, hashseed, clock, ret, obs, store>>

\* The backend keeps its entities by name, whatever their kind.
\* delete_variable(name): removes the entity of that name, raises when there
\* is none.
\* Variant: the delete empties the tables.
LibDeleteAll(b, name) ==
    [raises |-> name \notin b.vehicles \cup b.tracks,
     backend |-> [b EXCEPT !.vehicles = {}, !.tracks = {}]]
LibDelete(b, name) ==
    [raises |-> name \notin b.vehicles \cup b.tracks,
     backend |-> [b EXCEPT !.vehicles = @ \ {name}, !.tracks = @ \ {name}]]
\* create_vehicle_from_xml / create_track_from_xml: raises when an entity of
\* that name exists, and adds the entity to its table otherwise.
LibCreate(b, table, name) ==
    IF name \in b.vehicles \cup b.tracks
    THEN [raises |-> TRUE, backend |-> b]
    ELSE [raises |-> FALSE, backend |-> [b EXCEPT ![table] = @ \cup {name}]]

\* Variant: the entity created without deleting a prior one of that name.
RegisterWithoutDelete(b, table, name) == LibCreate(b, table, name)
\* Delete first (a failing delete is ignored), then create.
Register(b, table, name) == LibCreate(LibDelete(b, name).backend, table, name)

\* What create_vehicle / create_track does to the backend, and whether it
\* raises: nothing in mock mode.
\* Variant: the backend is called without looking at the mode.
RegistrationAnyMode(table, name) == Register(backend, table, name)
Registration(table, name) ==
    IF mock_mode THEN [raises |-> FALSE, backend |-> backend]
    ELSE Register(backend, table, name)
Outcome(r) == IF r.raises THEN [kind |-> "raise", exc |-> "Exception"] ELSE [kind |-> "None"]

\* create_vehicle(vehicle_def, vehicle_file)
CreateVehicle(vehicle_def) ==
    /\ \E r \in {Registration("vehicles", vehicle_def)} :
           /\ backend' = r.backend
           /\ ret' = [op |-> "create_vehicle", args |-> <<vehicle_def>>, val |-> Outcome(r)]
    /\ obs' = [NoObs EXCEPT !.again = ret.op = "create_vehicle" /\ ret.args = <<vehicle_def>>]
    /\ UNCHANGED <<files, mock_mode, lib, hashseed, clock, store, inflight>>

\* create_track(track_name, track_file): the same policy, keyed by the track name.
CreateTrack(track_name) ==
    /\ \E r \in {Registration("tracks", track_name)} :
           /\ backend' = r.backend
           /\ ret' = [op |-> "create_track", args |-> <<track_name>>, val |-> Outcome(r)]
    /\ obs' = [NoObs EXCEPT !.again = ret.op = "create_track" /\ ret.args = <<track_name>>]
    /\ UNCHANGED <<files, mock_mode, lib, hashseed, clock, store, inflight>>

\* ------------------------------------------------------------ result store
\* ResultManager's files, empty: ledger is the rows of summary.csv in file
\* order, header_lines the number of header lines in summary.csv (0: there is
\* no such file), blobs the files of the telemetry directory by name, issued
\* the number of run ids uuid4 has produced, returned the (run_id, record)
\* pairs of the save_run calls that returned, oldest first.
NoResults == [ledger |-> <<>>, header_lines |-> 0, blobs |-> <<>>, issued |-> 0,
              returned |-> <<>>]

\* datetime.now().strftime("%Y-%m-%d %H:%M:%S"): the clock, to the second.
Timestamp(now) == ToString(now)

\* str(uuid.uuid4())[:8]: the k-th token drawn differs from those before it.
Uuid4(k) == "uuid" \o ToString(k)

\* The name of the telemetry file; replacing ':' and ' ' leaves the digits of
\* the timestamp as they are.
TelemFilename(timestamp, vehicle, track) ==
    timestamp \o "_" \o vehicle \o "_" \o track \o ".csv"

\* The keys of a telemetry record, in the order of the dict.
Columns == <<"x", "y", "u", "time", "s">>
ColumnSet == {Columns[i] : i \in 1..Len(Columns)}

\* pd.DataFrame(run_data): a column per key; the lists must have one length,
\* a scalar is repeated on every row, and a dict of scalars only is refused.
DataFrame(run_data) ==
    Bind({Len(run_data[k].list) : k \in {c \in ColumnSet : IsList(run_data[c])}},
         LAMBDA lens :
             IF Cardinality(lens) # 1 THEN [exc |-> TRUE, val |-> None]
             ELSE Bind(CHOOSE n \in lens : TRUE, LAMBDA n :
                      [exc |-> FALSE,
                       val |-> [k \in ColumnSet |->
                                   IF IsList(run_data[k]) THEN run_data[k].list
                                   ELSE Tabulate(LAMBDA i : run_data[k].float, n)]]))

\* df.to_csv(path, index=False): the header line, then one line per row with
\* the cells in column order.  A float is written with the digits that read
\* back as the same float.
ToCsv(df) ==
    [header |-> Columns,
     rows |-> Tabulate(LAMBDA i : Tabulate(LAMBDA j : df[Columns[j]][i], Len(Columns)),
                       Len(df[Columns[1]]))]

\* run_data['time'][-1]: a TypeError on a float, an IndexError on [].
LapTime(run_data) ==
    IF ~IsList(run_data.time) \/ Len(run_data.time.list) = 0
    THEN [exc |-> TRUE, val |-> 0]
    ELSE [exc |-> FALSE, val |-> run_data.time.list[Len(run_data.time.list)]]

\* max(run_data['u']) * 3.6: a TypeError on a float, a ValueError on [].
\* Variant: the maximum is kept in m/s.
MaxSpeedMs(run_data) ==
    IF ~IsList(run_data.u) \/ Len(run_data.u.list) = 0
    THEN [exc |-> TRUE, val |-> 0]
    ELSE [exc |-> FALSE, val |-> MaxSeq(run_data.u.list)]
MaxSpeedKmh(run_data) ==
    IF ~IsList(run_data.u) \/ Len(run_data.u.list) = 0
    THEN [exc |-> TRUE, val |-> 0]
    ELSE [exc |-> FALSE, val |-> (MaxSeq(run_data.u.list) * 36) \div 10]

\* The summary row goes to summary.csv: with the header line when the file
\* does not exist, appended without one when it does.
\* Variant: the file is written anew, header and row, on every save.
WriteSummary(st, summary_record) ==
    [st EXCEPT !.ledger = <<summary_record>>, !.header_lines = 1]
AppendSummary(st, summary_record) ==
    [st EXCEPT !.ledger = Append(@, summary_record),
               !.header_lines = IF @ = 0 THEN 1 ELSE @]

\* The outcomes of a call of the result store.
Raised(st, exc) == [store |-> st, val |-> [kind |-> "raise", exc |-> exc]]
Killed(st) == [store |-> st, val |-> [kind |-> "killed"]]

\* save_run(vehicle, track, run_data, run_id) at clock time now.  stop is
\* where the process is killed, if it is: "start" before anything is
\* written, "between" after the first of the two files is written, "none"
\* when the call runs to its end.
\* Variant: the summary row is appended before the telemetry file is written.
SaveRunLedgerFirst(st, now, vehicle, track, run_data, run_id, stop) ==
    Bind(IF IsNone(run_id) \/ Val(run_id) = ""
         THEN [id |-> Uuid4(st.issued + 1), st |-> [st EXCEPT !.issued = @ + 1]]
         ELSE [id |-> Val(run_id), st |-> st], LAMBDA g :
    Bind(DataFrame(run_data), LAMBDA df :
    Bind(TelemFilename(Timestamp(now), vehicle, track), LAMBDA telem_filename :
        IF df.exc THEN Raised(g.st, "ValueError")
        ELSE IF stop = "start" THEN Killed(g.st)
        ELSE IF LapTime(run_data).exc \/ MaxSpeedKmh(run_data).exc
        THEN Raised(g.st, "TypeError")
        ELSE Bind(AppendSummary(g.st,
                                [timestamp |-> Timestamp(now), run_id |-> g.id,
                                 vehicle |-> vehicle, track |-> track,
                                 lap_time_s |-> LapTime(run_data).val,
                                 max_speed_kmh |-> MaxSpeedKmh(run_data).val,
                                 telemetry_file |-> telem_filename]),
                  LAMBDA appended :
                 IF stop = "between" THEN Killed(appended)
                 ELSE [store |-> [appended EXCEPT
                                      !.blobs = (telem_filename :> ToCsv(df.val)) @@ @,
                                      !.returned = Append(@, [run_id |-> g.id,
                                                              record |-> run_data])],
                       val |-> [kind |-> "str", run_id |-> g.id]]))))
SaveRunOutcome(st, now, vehicle, track, run_data, run_id, stop) ==
    Bind(IF IsNone(run_id) \/ Val(run_id) = ""
         THEN [id |-> Uuid4(st.issued + 1), st |-> [st EXCEPT !.issued = @ + 1]]
         ELSE [id |-> Val(run_id), st |-> st], LAMBDA g :
    Bind(DataFrame(run_data), LAMBDA df :
    Bind(TelemFilename(Timestamp(now), vehicle, track), LAMBDA telem_filename :
        IF df.exc THEN Raised(g.st, "ValueError")
        ELSE IF stop = "start" THEN Killed(g.st)
        ELSE Bind([g.st EXCEPT !.blobs = (telem_filename :> ToCsv(df.val)) @@ @],
                  LAMBDA written :
                 IF stop = "between" THEN Killed(written)
                 ELSE IF LapTime(run_data).exc \/ MaxSpeedKmh(run_data).exc
                 THEN Raised(written, "TypeError")
                 ELSE [store |-> [AppendSummary(written,
                                                [timestamp |-> Timestamp(now), run_id |-> g.id,
                                                 vehicle |-> vehicle, track |-> track,
                                                 lap_time_s |-> LapTime(run_data).val,
                                                 max_speed_kmh |-> MaxSpeedKmh(run_data).val,
                                                 telemetry_file |-> telem_filename])
                                  EXCEPT !.returned = Append(@, [run_id |-> g.id,
                                                                 record |-> run_data])],
                       val |-> [kind |-> "str", run_id |-> g.id]]))))

\* Bound of the number of save_run calls that return and of the run ids drawn.
MaxRuns == 2

SaveRun(vehicle, track, run_data, run_id, stop) ==
    /\ Len(store.returned) < MaxRuns
    /\ store.issued < MaxRuns
    /\ \E r \in {SaveRunOutcome(store, clock, vehicle, track, run_data, run_id, stop)} :
           /\ store' = r.store
           /\ ret' = [op |-> "save_run", args |-> <<vehicle, track, run_id>>, val |-> r.val]
    /\ obs' = NoObs
    /\ UNCHANGED <<files, mock_mode, lib, backend, hashseed, clock, inflight>>

\* pd.read_csv of a telemetry file: the columns by name, each the cells of
\* its position in the rows.
ReadCsv(table) ==
    [k \in {table.header[j] : j \in 1..Len(table.header)} |->
        Bind(CHOOSE j \in 1..Len(table.header) : table.header[j] = k, LAMBDA j :
            Tabulate(LAMBDA i : table.rows[i][j], Len(table.rows)))]

\* The rows of the ledger that carry the run_id, in file order.
RowsOf(st, run_id) == SelectSeq(st.ledger, LAMBDA row : row.run_id = run_id)

\* get_all_results(): every row of the ledger.
GetAllResults(st) == st.ledger

\* load_telemetry(run_id): the telemetry file that the ledger row of the
\* run_id names, read back as a record; None without a row or a file.
LoadTelemetry(st, run_id) ==
    IF Len(RowsOf(st, run_id)) = 0 THEN [kind |-> "None"]
    ELSE Bind(RowsOf(st, run_id)[1].telemetry_file, LAMBDA telemetry_file :
             IF telemetry_file \notin DOMAIN st.blobs THEN [kind |-> "None"]
             ELSE Bind(ReadCsv(st.blobs[telemetry_file]), LAMBDA df :
                      [kind |-> "record", x |-> [list |-> df.x], y |-> [list |-> df.y],
                       u |-> [list |-> df.u], time |-> [list |-> df.time],
                       s |-> [list |-> df.s]]))

\* The telemetry directory without the named files.
Unlink(blobs, names) == [n \in DOMAIN blobs \ names |-> blobs[n]]

\* delete_run(run_id): removes the ledger row of the run_id and the telemetry
\* file it names; returns whether a row existed.
\* Variant: the ledger is filtered without looking for the row first.
DeleteRunUnchecked(st, run_id) ==
    [store |-> [st EXCEPT
                    !.ledger = SelectSeq(@, LAMBDA row : row.run_id # run_id),
                    !.blobs = Unlink(@, {RowsOf(st, run_id)[i].telemetry_file :
                                            i \in 1..Len(RowsOf(st, run_id))})],
     val |-> [kind |-> "bool", existed |-> TRUE]]
DeleteRunOutcome(st, run_id) ==
    IF Len(RowsOf(st, run_id)) = 0
    THEN [store |-> st, val |-> [kind |-> "bool", existed |-> FALSE]]
    ELSE [store |-> [st EXCEPT
                         !.ledger = SelectSeq(@, LAMBDA row : row.run_id # run_id),
                         !.blobs = Unlink(@, {RowsOf(st, run_id)[i].telemetry_file :
                                                 i \in 1..Len(RowsOf(st, run_id))})],
          val |-> [kind |-> "bool", existed |-> TRUE]]

DoGetAllResults ==
    /\ ret' = [op |-> "get_all_results", args |-> <<>>,
               val |-> [kind |-> "rows", rows |-> GetAllResults(store)]]
    /\ obs' = NoObs
    /\ UNCHANGED <<files, mock_mode, lib, backend, hashseed, clock, store, inflight>>

DoLoadTelemetry(run_id) ==
    /\ ret' = [op |-> "load_telemetry", args |-> <<run_id>>,
               val |-> LoadTelemetry(store, run_id)]
    /\ obs' = NoObs
    /\ UNCHANGED <<files, mock_mode, lib, backend, hashseed, clock, store, inflight>>

DoDeleteRun(run_id) ==
    /\ \E r \in {DeleteRunOutcome(store, run_id)} :
           /\ store' = r.store
           /\ ret' = [op |-> "delete_run", args |-> <<run_id>>, val |-> r.val]
    /\ obs' = NoObs
    /\ UNCHANGED <<files, mock_mode, lib, backend, hashseed, clock, inflight>>

\* ------------------------------------------------------------ environment
\* A track file is written, replaced or removed.
WriteFile(suffix, doc) ==
    /\ files' = [files EXCEPT ![suffix] = Some(doc)]
    /\ UNCHANGED <<mock_mode, lib, backend, hashseed, clock, ret, obs, store, inflight>>

RemoveFile(suffix) ==
    /\ ~IsNone(files[suffix])
    /\ files' = [files EXCEPT ![suffix] = None]
    /\ UNCHANGED <<mock_mode, lib, backend, hashseed, clock, ret, obs, store, inflight>>

\* Bound of the wall clock.
MaxClock == 1

Tick ==
    /\ clock < MaxClock
    /\ clock' = clock + 1
    /\ UNCHANGED <<files, mock_mode, lib, backend, hashseed, ret, obs, store, inflight>>

\* The process is started again: a new hash seed, a new wrapper, an empty
\* backend; the import fails again (the library is still missing).
HashSeeds == {0, 1}
Restart(seed) ==
    /\ hashseed' = seed
    /\ Construct(~mock_mode)
    /\ backend' = [vehicles |-> {}, tracks |-> {}, outputs |-> None]
    /\ UNCHANGED <<files, clock, ret, obs, store, inflight>>

\* ------------------------------------------------------------ input sets
\* Channel texts: comma-separated tokens.
ConstText(v, n) == Tabulate(LAMBDA i : ToString(v), n)
RampText(n) == Tabulate(LAMBDA i : ToString(Min2(i - 1, MaxCoord)), n)
CoordTexts == UNION {[1..n -> {ToString(v) : v \in 0..MaxCoord}] : n \in 1..MaxLen}
BadText == <<"0", BadToken>>

Section(x, y, z) == Some([x |-> x, y |-> y, z |-> z])
Document(cl, left, right, measured, arclength) ==
    [wellformed |-> TRUE,
     data |-> Some([centerline |-> cl, left_boundary |-> left, right_boundary |-> right,
                    right_measured_boundary |-> measured, arclength |-> arclength])]
\* A file that is not XML, and an XML file without a data node.
Malformed == [wellformed |-> FALSE, data |-> None]
NoDataDoc == [wellformed |-> TRUE, data |-> None]

\* Documents that vary the centerline and the arclength channel.
CenterlineSections ==
    {Section(x, y, None) :
        x \in {Some(q) : q \in CoordTexts} \cup {None, Some(BadText)},
        y \in {Some(ConstText(0, n)) : n \in 1..MaxLen}
              \cup {Some(RampText(n)) : n \in 1..MaxLen} \cup {None, Some(<<>>), Some(BadText)}}
ArclengthChannels ==
    {None, Some(RampText(MaxLen)), Some(<<ToString(MaxCoord), "0">>), Some(BadText)}
CenterlineDocs ==
    {Document(cl, None, None, None, arc) : cl \in CenterlineSections, arc \in ArclengthChannels}

\* Documents that vary the boundaries.
ElevationChannels ==
    {None} \cup {Some(ConstText(v, n)) : v \in 0..MaxCoord, n \in 1..MaxLen}
BoundarySections(xvalues) ==
    {None} \cup {Section(Some(ConstText(v, n)), Some(ConstText(0, n)), z) :
                    v \in xvalues, n \in 1..MaxLen, z \in ElevationChannels}
BoundaryDocs ==
    {Document(cl, left, right, measured, None) :
        cl \in {None} \cup {Section(Some(RampText(n)), Some(ConstText(0, n)), None) : n \in {1, MaxLen}},
        left \in BoundarySections({0}),
        right \in BoundarySections({0, MaxCoord}),
        measured \in {None, Section(Some(ConstText(MaxCoord, MaxLen)), Some(ConstText(0, MaxLen)),
                                    Some(ConstText(MaxCoord, MaxLen)))}}

\* A track whose right boundary starts on the left one, higher, and moves away.
TwistDoc ==
    Document(Section(Some(RampText(MaxLen)), Some(ConstText(0, MaxLen)), None),
             Section(Some(ConstText(0, MaxLen)), Some(ConstText(0, MaxLen)),
                     Some(ConstText(0, MaxLen))),
             Section(Some(RampText(MaxLen)), Some(ConstText(0, MaxLen)),
                     Some(ConstText(MaxCoord, MaxLen))),
             None, None)

LoaderDocs == CenterlineDocs \cup BoundaryDocs \cup {Malformed, NoDataDoc, TwistDoc}

\* Documents for the synthesizer: every centerline over the coordinate grid
\* whose y is flat, a ramp or a zigzag, and the documents without a usable one.
ZigzagText(n) == Tabulate(LAMBDA i : ToString((i - 1) % 2), n)
PathSections ==
    {Section(Some(x), Some(y), None) :
        x \in CoordTexts,
        y \in {ConstText(0, n) : n \in 1..MaxLen} \cup {RampText(n) : n \in 1..MaxLen}
              \cup {ZigzagText(n) : n \in 1..MaxLen}}
FlatBoundary(v) == Section(Some(ConstText(v, 2)), Some(ConstText(0, 2)), Some(ConstText(v, 2)))
SynthDocs ==
    {Document(cl, None, None, None, None) : cl \in PathSections}
    \cup {Malformed, NoDataDoc,
          Document(Section(Some(RampText(2)), None, None), None, None, None, None),
          Document(None, FlatBoundary(0), FlatBoundary(1), None, None)}

\* A few documents for the specification of the whole program.
StraightDoc == Document(Section(Some(<<"0", "1", "2">>), Some(<<"0", "0", "0">>), None),
                        None, None, None, None)
CornerDoc == Document(Section(Some(<<"0", "1", "1">>), Some(<<"0", "0", "1">>), None),
                      None, None, None, None)
SmallDocs == {StraightDoc, CornerDoc, Malformed}

\* Backend runs: the arclength of the registered track and the output
\* variables of the run, by name.  The backend holds a vector variable as
\* its samples and a scalar variable as one value.
Ramp(n) == Tabulate(LAMBDA i : (i - 1) * SCALE, n)
\* The samples of a vector variable: a ramp, shifted for the longer names so
\* that two variables of one run differ.
Shift(name) ==
    CASE name = "chassis.position.x" -> 1
      [] name = "chassis.position.y" -> 2
      [] name = "chassis.velocity.x" -> 3
      [] name = "vehicle.velocity.x" -> 4
      [] name = "s" -> 5
      [] name = "arclength" -> 6
      [] OTHER -> 0
Vector(n, name) == [type |-> "vector", v |-> Tabulate(LAMBDA i : (i - 1) * SCALE + Shift(name), n)]
Scalar == [type |-> "scalar", v |-> <<0>>]
RunOf(n, names, scalars) ==
    [raises |-> FALSE, s |-> Ramp(n),
     out |-> [k \in names |-> IF k \in scalars THEN Scalar ELSE Vector(n, k)]]
BackendRaises == [RunOf(2, {"x"}, {}) EXCEPT !.raises = TRUE]
\* A run whose vectors have one sample more than the track's arclength.
BackendLonger == [RunOf(MaxLen, {"x", "y", "u", "time"}, {}) EXCEPT !.s = Ramp(MaxLen - 1)]
\* A run that leaves a variable that is neither a scalar nor a vector.
BackendOdd ==
    [RunOf(2, {"x", "y", "u", "time"}, {}) EXCEPT !.out["u"] = [type |-> "other", v |-> <<>>]]
\* A run that leaves arclength channels of its own among its outputs.
BackendArclength == RunOf(2, {"x", "y", "u", "time", "s", "arclength"}, {})
BackendRuns ==
    {BackendRaises, BackendLonger, BackendOdd, BackendArclength}
    \cup {RunOf(n, names, scalars) :
            n \in 2..MaxLen,
            names \in {{"x", "y", "u", "time"}, {"x", "y", "u", "time", "laptime"},
                       {"chassis.position.x", "chassis.position.y", "vehicle.velocity.x", "time"},
                       {"x", "chassis.position.x", "y", "chassis.position.y", "time",
                        "u", "chassis.velocity.x", "vehicle.velocity.x"},
                       {"x", "y", "chassis.velocity.x", "vehicle.velocity.x", "time"},
                       {"x", "y", "time"}},
            scalars \in {{}, {"laptime"}, {"time"}}}

\* The vehicle file the simulation page saves runs of.
StoreVehicles == {"f1.xml"}
\* The records optimize hands to save_run: a synthesised lap of a label, and
\* the record the live bridge builds from a run of the backend.
MockRecord(label) == RecordOf(GenerateMockData(3, [kind |-> "None"], label))
LiveRecord(run) ==
    Bind(DownloadVariables(run.out).val, LAMBDA run_data :
        [kind |-> "record", x |-> GetVar(run_data, AliasesX).val,
         y |-> GetVar(run_data, AliasesY).val, u |-> GetVar(run_data, AliasesU).val,
         time |-> GetVar(run_data, AliasesTime).val, s |-> [list |-> run.s]])
\* A live record whose time is a scalar of the backend.
ScalarTimeRecord == LiveRecord(RunOf(2, {"x", "y", "u", "time"}, {"time"}))
StoreRecords == {MockRecord("car_A"), MockRecord("car_B"), ScalarTimeRecord,
                 LiveRecord(BackendLonger)}
\* The run_id argument: left out, or given by the caller.
RunIdArgs == {None, Some("run1")}
Stops == {"none", "start", "between"}

\* ---------------------------------------------------------- specifications
Suffixes == {possible_files[i] : i \in 1..Len(possible_files)}
NoCall == [op |-> "none", args |-> <<>>, val |-> [kind |-> "None"]]

\* The state after FastestLapWrapper() with the given files on disk.
Constructed(dir, import_ok) ==
    /\ files = dir
    /\ mock_mode = ~import_ok
    /\ lib = (IF import_ok THEN Some("fastest_lap") ELSE None)
    /\ backend = [vehicles |-> {}, tracks |-> {}, outputs |-> None]
    /\ hashseed = 0
    /\ clock = 0
    /\ ret = NoCall
    /\ obs = NoObs
    /\ store = NoResults
    /\ inflight = NoCalls

OnlyBase(doc) == [NoFiles EXCEPT ![".xml"] = Some(doc)]

\* The whole program on a few documents: files come and go, and the loader,
\* the path resolver and the bridge are called in any order.
SpecLabels == {"car_A", "car_B"}
SpecTracks == {TRACK, "ghost"}
SpecRuns == {BackendRaises, RunOf(2, {"x", "y", "u", "time"}, {}),
             RunOf(2, {"x", "y", "time"}, {})}
Init == \E import_ok \in BOOLEAN : Constructed(NoFiles, import_ok)
Next ==
    \/ \E f \in Suffixes, d \in SmallDocs : WriteFile(f, d)
    \/ \E f \in Suffixes : RemoveFile(f)
    \/ \E t \in SpecTracks : DoLoadTrackData(t)
    \/ \E t \in SpecTracks : DoGetTrackXmlPath(t)
    \/ \E v \in SpecLabels, t \in SpecTracks : OptimizeMock(v, t, 2)
    \/ \E v \in SpecLabels, t \in SpecTracks, run \in SpecRuns : OptimizeLive(v, t, 2, run)
    \/ \E v \in SpecLabels : CreateVehicle(v)
    \/ CreateTrack(TRACK)
Spec == Init /\ [][Next]_vars

\* The loader on every document of LoaderDocs.
InitLoader == \E d \in LoaderDocs : Constructed(OnlyBase(d), FALSE)
NextLoader == DoLoadTrackData(TRACK)
SpecLoader == InitLoader /\ [][NextLoader]_vars

\* The synthesizer (optimize in mock mode) on every document of SynthDocs.
InitSynth == \E d \in SynthDocs : Constructed(OnlyBase(d), FALSE)
NextSynth ==
    /\ ret = NoCall
    /\ \E v \in Labels, t \in TrackNames, n \in NPointsArgs : OptimizeMock(v, t, n)
SpecSynth == InitSynth /\ [][NextSynth]_vars

\* The synthesizer called again and again while the clock advances and the
\* process restarts.
InitRepeat == \E d \in SmallDocs \cup {NoDataDoc} : Constructed(OnlyBase(d), FALSE)
NextRepeat ==
    \/ \E v \in Labels, t \in {TRACK, ""} : OptimizeMock(v, t, 5)
    \/ Tick
    \/ \E seed \in HashSeeds : Restart(seed)
SpecRepeat == InitRepeat /\ [][NextRepeat]_vars

\* The bridge on a live backend, over every run of BackendRuns.
InitLive == \E d \in {StraightDoc} : Constructed(OnlyBase(d), TRUE)
NextLive ==
    \/ \E v \in SpecLabels, t \in SpecTracks, run \in BackendRuns : OptimizeLive(v, t, 400, run)
    \/ \E v \in SpecLabels \cup {TRACK} : CreateVehicle(v)
    \/ CreateTrack(TRACK)
SpecLive == InitLive /\ [][NextLive]_vars

\* Live optimize calls of two labels, their backend calls interleaved.
StepRuns == {RunOf(2, {"x", "y", "u", "time"}, {}), RunOf(MaxLen, {"x", "y", "u", "time"}, {}),
             BackendOdd, BackendRaises}
NextSteps ==
    \/ \E v \in SpecLabels, t \in SpecTracks, run \in StepRuns : OptimizeBegin(v, t, run)
    \/ \E v \in SpecLabels : OptimizeRun(v)
    \/ \E v \in SpecLabels : OptimizeDownload(v)
    \/ \E v \in SpecLabels : OptimizeFinish(v)
SpecSteps == InitLive /\ [][NextSteps]_vars

\* The result store under save_run calls that run to their end, raise or are
\* killed, while the clock advances.
InitSave == Constructed(NoFiles, FALSE)
NextSave ==
    \/ \E v \in StoreVehicles, r \in StoreRecords, id \in RunIdArgs, stop \in Stops :
           SaveRun(v, TRACK, r, id, stop)
    \/ Tick
SpecSave == InitSave /\ [][NextSave]_vars

\* Saves that return or raise, and loads of the run ids in between.
RunIds == {Uuid4(k) : k \in 1..MaxRuns} \cup {"run1", "ghost"}
NextLoad ==
    \/ \E v \in StoreVehicles, r \in StoreRecords, id \in RunIdArgs :
           SaveRun(v, TRACK, r, id, "none")
    \/ Tick
    \/ \E id \in RunIds : DoLoadTelemetry(id)
SpecLoad == InitSave /\ [][NextLoad]_vars

\* The whole result store: saves, listings, loads and deletes.
NextStore ==
    \/ \E v \in StoreVehicles, r \in {MockRecord("car_A"), ScalarTimeRecord}, id \in RunIdArgs :
           SaveRun(v, TRACK, r, id, "none")
    \/ Tick
    \/ DoGetAllResults
    \/ \E id \in RunIds : DoLoadTelemetry(id)
    \/ \E id \in RunIds : DoDeleteRun(id)
SpecStore == InitSave /\ [][NextStore]_vars

\* ------------------------------------------------------------------ claims
\* The last call returned a telemetry record / a geometry.
ReturnedRecord == ret.op = "optimize" /\ ret.val.kind = "record"
ReturnedGeometry == ret.op = "load_track_data" /\ ret.val.kind = "geometry"
Geometry == ret.val.geometry
\* The data node of the base file of the track (with ReturnedGeometry, under
\* SpecLoader, the file the loader parsed).
Source == Val(Val(files[".xml"]).data)

\* A channel of a section of the source that is missing or has no text.
ChannelAbsent(sec, key) ==
    IsNone(sec) \/ IsNone(Val(sec)[key]) \/ Val(Val(sec)[key]) = <<>>
ChannelLen(sec, key) == IF ChannelAbsent(sec, key) THEN 0 ELSE Len(Val(Val(sec)[key]))
\* The section the right boundary is read from.
RightSection(data) ==
    IF IsNone(data.right_boundary) THEN data.right_measured_boundary ELSE data.right_boundary
BadChannel(text) == ~IsNone(text) /\ \E i \in 1..Len(Val(text)) : Float(Val(text)[i]).exc
BadSection(sec) ==
    ~IsNone(sec) /\ \E key \in {"x", "y", "z"} : BadChannel(Val(sec)[key])
AllZero(q) == \A i \in 1..Len(q) : q[i] = 0
NonDecreasing(q) == \A i \in 2..Len(q) : q[i - 1] <= q[i]
Finite(q) == \A i \in 1..Len(q) : ~IsNaN(q[i])
\* The distance between sample i and sample i + 1 of a curve.
SegmentLength(cx, cy, i) == Hypot(cx[i + 1] - cx[i], cy[i + 1] - cy[i])
\* The number of samples of a curve that have both coordinates.
SampleCount(cx, cy) == Min2(Len(cx), Len(cy))
PolylineLength(cx, cy) ==
    SumSeq(Tabulate(LAMBDA i : SegmentLength(cx, cy, i), Max2(SampleCount(cx, cy), 1) - 1))

\* C1: in mock mode (the import failed at construction) every optimize call,
\* whatever the label and the track, returns a telemetry record: it neither
\* raises nor returns a failure value.
C1_MockOptimizeReturnsRecord ==
    (mock_mode /\ ret.op = "optimize") => ret.val.kind = "record"

\* C2: a telemetry record returned by optimize, in either mode, has the five
\* sequences x, y, u, s, time of one common length N >= 2 with s[0] = 0 and
\* time[0] = 0.
C2_CanonicalRecordShape ==
    ReturnedRecord =>
        /\ \A f \in {"x", "y", "u", "s", "time"} : IsList(ret.val[f])
        /\ Len(ret.val.x.list) >= 2
        /\ \A f \in {"y", "u", "s", "time"} : Len(ret.val[f].list) = Len(ret.val.x.list)
        /\ ret.val.s.list[1] = 0
        /\ ret.val.time.list[1] = 0

\* C3: when the source has no right-boundary elevation (no right boundary
\* section, or one with x and y but no z), or its length differs from the
\* left-boundary elevation, the banking of the returned geometry is all
\* zeros and has as many entries as the centerline.
C3_BankingZeroWithoutRightElevation ==
    (/\ ReturnedGeometry
     /\ \/ ChannelAbsent(RightSection(Source), "z")
        \/ /\ ~ChannelAbsent(Source.left_boundary, "z")
           /\ ChannelLen(RightSection(Source), "z") # ChannelLen(Source.left_boundary, "z"))
    => /\ AllZero(Geometry.banking)
       /\ ~IsNone(Geometry.centerline.x)
       /\ Len(Geometry.banking) = Len(Val(Geometry.centerline.x))

\* C4: loading is all-or-nothing: a source with an unparsable token in a
\* channel, or whose centerline lacks x or y, yields a failure; no returned
\* geometry has an empty or absent centerline or an unset arclength.
C4_LoadAllOrNothing ==
    ret.op = "load_track_data" =>
        /\ (/\ Val(files[".xml"]).wellformed
            /\ ~IsNone(Val(files[".xml"]).data)
            /\ \/ BadChannel(Source.arclength)
               \/ BadSection(Source.centerline)
               \/ BadSection(Source.left_boundary)
               \/ BadSection(RightSection(Source))
               \/ /\ ~IsNone(Source.centerline)
                  /\ \/ ChannelAbsent(Source.centerline, "x")
                     \/ ChannelAbsent(Source.centerline, "y"))
           => ret.val.kind = "None"
        /\ ret.val.kind = "geometry" =>
               /\ Truthy(Geometry.centerline.x)
               /\ Truthy(Geometry.centerline.y)
               /\ ~IsNone(Geometry.s)

\* C5: with the same track files and the same arguments, a synthesizer call
\* returns the record the call before it returned, whatever happened to the
\* clock and to the process in between.
C5_SameCallSameRecord ==
    [][(/\ ret.op = "optimize"
        /\ ret'.op = "optimize"
        /\ ret'.args = ret.args
        /\ files' = files)
       => ret'.val = ret.val]_vars
\* A call that repeated the call before it and returned a record.
C5_Witness == mock_mode /\ ReturnedRecord /\ obs.again

C7_ArclengthMatchesCenterline ==
    ReturnedGeometry =>
        /\ ~IsNone(Geometry.s)
        /\ ~IsNone(Geometry.centerline.x)
        /\ Len(Val(Geometry.s)) = Len(Val(Geometry.centerline.x))

\* C8: in every returned geometry each of the three curves has x, y and z
\* present and of one length; a z missing in the source is zeros, as many as x.
C8_CurvesComplete ==
    ReturnedGeometry =>
        /\ \A c \in {"centerline", "left", "right"} :
               /\ ~IsNone(Geometry[c].x) /\ ~IsNone(Geometry[c].y) /\ ~IsNone(Geometry[c].z)
               /\ Len(Val(Geometry[c].y)) = Len(Val(Geometry[c].x))
               /\ Len(Val(Geometry[c].z)) = Len(Val(Geometry[c].x))
        /\ (~IsNone(Source.centerline) /\ ChannelAbsent(Source.centerline, "z"))
               => /\ AllZero(Val(Geometry.centerline.z))
                  /\ Len(Val(Geometry.centerline.z)) = Len(Val(Geometry.centerline.x))

\* The variant the resolution policy prefers among those that exist.
Preferred(dir) ==
    IF ~IsNone(dir["_3d.xml"]) THEN Some("_3d.xml")
    ELSE IF ~IsNone(dir["_adapted.xml"]) THEN Some("_adapted.xml")
    ELSE IF ~IsNone(dir[".xml"]) THEN Some(".xml")
    ELSE None

\* C9: load_track_data parses the first existing variant in the order _3d,
\* _adapted, base, and returns no geometry when none exists;
\* get_track_xml_path names the same file whenever a variant exists.
C9_FirstExistingVariant ==
    [][(files' = files /\ ret'.op \in {"load_track_data", "get_track_xml_path"})
       => /\ ret'.op = "load_track_data" =>
                 /\ obs'.xml_path = Preferred(Dir(ret'.args[1]))
                 /\ Preferred(Dir(ret'.args[1])) = None => ret'.val.kind = "None"
          /\ (ret'.op = "get_track_xml_path" /\ Preferred(Dir(ret'.args[1])) # None)
                 => Some(ret'.val) = Preferred(Dir(ret'.args[1]))]_vars
\* The loader parsed the adapted variant while the base variant also exists
\* and the 3D variant does not.
C9_Witness ==
    /\ ret.op = "load_track_data" /\ ret.args = <<TRACK>>
    /\ IsNone(files["_3d.xml"]) /\ ~IsNone(files["_adapted.xml"]) /\ ~IsNone(files[".xml"])
    /\ obs.xml_path = Some("_adapted.xml")
    /\ ret.val.kind = "geometry"

\* C10: on every path of two or more points the curvature the synthesizer
\* computes has no NaN, and none reaches the speed or the time channel.
C10_CurvatureFinite ==
    ReturnedRecord =>
        /\ Finite(Val(obs.curvature))
        /\ Finite(ret.val.u.list)
        /\ Finite(ret.val.time.list)
\* A record for a path with a repeated point, where both first derivatives
\* vanish and the denominator is zero before the floor is applied.
C10_Witness ==
    /\ mock_mode /\ ReturnedRecord
    /\ \E i \in 1..(Len(ret.val.x.list) - 1) :
           /\ ret.val.x.list[i] = ret.val.x.list[i + 1]
           /\ ret.val.y.list[i] = ret.val.y.list[i + 1]
           /\ Gradient(ret.val.x.list)[i] = 0
           /\ Gradient(ret.val.y.list)[i] = 0
           /\ Val(obs.curvature)[i] = 0

\* C11: in every synthesized record time starts at 0, each step adds
\* (s[i] - s[i-1]) over the mean of u[i-1] and u[i] (raised to 1 when below
\* 1), so time is non-decreasing, and strictly increasing across every step
\* whose two path points are distinct.
C11_TimeIntegration ==
    (mock_mode /\ ReturnedRecord) =>
        /\ ret.val.time.list[1] = 0
        /\ \A i \in 2..Len(ret.val.time.list) :
               /\ ret.val.time.list[i] = ret.val.time.list[i - 1]
                      + LongDiv(ret.val.s.list[i] - ret.val.s.list[i - 1],
                                Max2((ret.val.u.list[i] + ret.val.u.list[i - 1]) \div 2, SCALE), 3)
               /\ ret.val.time.list[i - 1] <= ret.val.time.list[i]
               /\ (\/ ret.val.x.list[i] # ret.val.x.list[i - 1]
                   \/ ret.val.y.list[i] # ret.val.y.list[i - 1])
                      => ret.val.time.list[i - 1] < ret.val.time.list[i]
\* A record of three samples, all apart, whose time grows at both steps.
C11_Witness ==
    /\ mock_mode /\ ReturnedRecord
    /\ Len(ret.val.time.list) = 3
    /\ ret.val.x.list[1] # ret.val.x.list[2]
    /\ ret.val.y.list[2] # ret.val.y.list[3]
    /\ 0 < ret.val.time.list[2]
    /\ ret.val.time.list[2] < ret.val.time.list[3]

\* The speed factor f = 1 + (h - 50) / 500 of a label, in thousandths.
SpeedFactor(label) == SCALE + 2 * (Sha256Mod100(label) - 50)
\* (kmh / 3.6) * f in thousandths of m/s.
ScaledSpeed(kmh, label) == (kmh * 10 * SpeedFactor(label)) \div 36

\* C12: every synthesized speed sample lies between (60/3.6)*f and
\* (300/3.6)*f, where f = 1 + (h - 50)/500 is within 10% of 1 and h is the
\* SHA-256 of the label modulo 100; the normalized curvature is in [0,1].
C12_SpeedWithinBand ==
    (mock_mode /\ ReturnedRecord) =>
        /\ 9 * SCALE <= 10 * SpeedFactor(ret.args[1])
        /\ 10 * SpeedFactor(ret.args[1]) <= 11 * SCALE
        /\ \A i \in 1..Len(ret.val.u.list) :
               /\ ScaledSpeed(60, ret.args[1]) <= ret.val.u.list[i]
               /\ ret.val.u.list[i] <= ScaledSpeed(300, ret.args[1])
        /\ \A i \in 1..Len(Val(obs.curvature)) :
               /\ 0 <= Val(obs.curvature)[i]
               /\ Val(obs.curvature)[i] <= MaxSeq(Val(obs.curvature))
               /\ LongDiv(Val(obs.curvature)[i], MaxSeq(Val(obs.curvature)) + NORM_EPS, 3)
                      \in 0..SCALE
\* A record on a path with a corner: the speed differs between two samples.
C12_Witness ==
    /\ mock_mode /\ ReturnedRecord
    /\ \E i, j \in 1..Len(ret.val.u.list) : ret.val.u.list[i] < ret.val.u.list[j]
    /\ \E i \in 1..Len(Val(obs.curvature)) : Val(obs.curvature)[i] > 0

\* C13: create_vehicle called again with the same label, and create_track
\* called again with the same name, does not fail and leaves exactly one
\* entity registered under that name.
C13_RegistrationIdempotent ==
    (~mock_mode /\ ret.op \in {"create_vehicle", "create_track"}) =>
        /\ ret.val.kind = "None"
        /\ ret.op = "create_vehicle" =>
               ret.args[1] \in backend.vehicles /\ ret.args[1] \notin backend.tracks
        /\ ret.op = "create_track" =>
               ret.args[1] \in backend.tracks /\ ret.args[1] \notin backend.vehicles
\* A create_vehicle call that repeated the call before it.
C13_Witness ==
    /\ ~mock_mode /\ ret.op = "create_vehicle" /\ obs.again
    /\ ret.val.kind = "None"
    /\ ret.args[1] \in backend.vehicles

\* A field of the record that no alias of its list resolves in the output.
Unresolved(out) ==
    \E aliases \in {AliasesX, AliasesY, AliasesU, AliasesTime} :
        \A i \in 1..Len(aliases) : aliases[i] \notin DOMAIN out

\* C14: in live-backend mode optimize never raises: with the track file
\* missing, the backend raising, or a required output field missing, it
\* returns the failure value, and the vehicles and tracks registered in the
\* backend are the same after the call as before it.
C14_LiveFailureIsContained ==
    [][(~mock_mode' /\ files' = files /\ ret'.op = "optimize") =>
          /\ ret'.val.kind \in {"None", "record"}
          /\ (\/ Preferred(Dir(ret'.args[2])) = None
              \/ Val(obs'.run).raises
              \/ Unresolved(Val(obs'.run).out)) => ret'.val.kind = "None"
          /\ backend'.vehicles = backend.vehicles
          /\ backend'.tracks = backend.tracks]_vars
\* A call on which the backend raised, with a vehicle and the track registered.
C14_Witness ==
    /\ ~mock_mode /\ ret.op = "optimize" /\ ret.val.kind = "None"
    /\ ret.args[2] = TRACK
    /\ Val(obs.run).raises
    /\ ret.args[1] \in backend.vehicles
    /\ TRACK \in backend.tracks

\* The value download_variables returns for a variable of the run.
Downloaded(var) == IF var.type = "scalar" THEN [float |-> var.v[1]] ELSE [list |-> var.v]
\* The resolution of up to three aliases in their order.
FirstPresent(out, aliases) ==
    IF aliases[1] \in DOMAIN out THEN Downloaded(out[aliases[1]])
    ELSE IF Len(aliases) >= 2 /\ aliases[2] \in DOMAIN out THEN Downloaded(out[aliases[2]])
    ELSE Downloaded(out[aliases[3]])

\* C15: each field of a live record is the first alias of its list that the
\* backend output holds: x from [x, chassis.position.x], y from
\* [y, chassis.position.y], speed from [u, chassis.velocity.x,
\* vehicle.velocity.x], time from [time]; an earlier alias wins over a later.
C15_FirstAliasWins ==
    (~mock_mode /\ ReturnedRecord) =>
        /\ ret.val.x = FirstPresent(Val(obs.run).out, <<"x", "chassis.position.x">>)
        /\ ret.val.y = FirstPresent(Val(obs.run).out, <<"y", "chassis.position.y">>)
        /\ ret.val.u = FirstPresent(Val(obs.run).out,
                                    <<"u", "chassis.velocity.x", "vehicle.velocity.x">>)
        /\ ret.val.time = FirstPresent(Val(obs.run).out, <<"time">>)
\* An output with vehicle.velocity.x and neither u nor chassis.velocity.x:
\* that channel is the speed of the record.
C15_Witness ==
    /\ ~mock_mode /\ ReturnedRecord
    /\ "vehicle.velocity.x" \in DOMAIN Val(obs.run).out
    /\ "u" \notin DOMAIN Val(obs.run).out
    /\ "chassis.velocity.x" \notin DOMAIN Val(obs.run).out
    /\ ret.val.u = [list |-> Val(obs.run).out["vehicle.velocity.x"].v]

\* The backend optimization of the last call succeeded: the track file
\* exists, no backend call raised and every output variable was downloaded.
BackendSucceeded ==
    /\ ~mock_mode /\ ret.op = "optimize"
    /\ Preferred(Dir(ret.args[2])) # None
    /\ ~Val(obs.run).raises
    /\ \A k \in DOMAIN Val(obs.run).out : Val(obs.run).out[k].type \in {"scalar", "vector"}

\* C16: when, after a successful backend optimization, no alias resolves for
\* one of x, y, speed or time, optimize returns the failure value: never a
\* record with a channel missing or defaulted.
C16_MissingFieldFails ==
    /\ (BackendSucceeded /\ Unresolved(Val(obs.run).out)) => ret.val.kind = "None"
    /\ (~mock_mode /\ ReturnedRecord) =>
           /\ ~Unresolved(Val(obs.run).out)
           /\ DOMAIN ret.val = {"kind", "x", "y", "u", "time", "s"}
\* A successful backend run without any alias of the speed: the call failed.
C16_Witness ==
    /\ BackendSucceeded
    /\ DOMAIN Val(obs.run).out = {"x", "y", "time"}
    /\ ret.val.kind = "None"
C18_RunIdAddressesOneBlob ==
    \A i, j \in 1..Len(store.ledger) :
        i # j => /\ store.ledger[i].run_id # store.ledger[j].run_id
                 /\ store.ledger[i].telemetry_file # store.ledger[j].telemetry_file

\* C19: load_telemetry of a run_id that save_run returned gives the x, y, u,
\* s and time of the record that was saved under that run_id, whatever was
\* saved afterwards.
C19_LoadReturnsSavedRecord ==
    ret.op = "load_telemetry" =>
        \A k \in 1..Len(store.returned) :
            store.returned[k].run_id = ret.args[1] =>
                /\ ret.val.kind = "record"
                /\ \A c \in ColumnSet : ret.val[c] = store.returned[k].record[c]

\* C20: delete_run of a run_id that has no row in the ledger returns False,
\* and the listing of all results and the telemetry files are after the call
\* what they were before it.
C20_DeleteAbsentRunId ==
    [][\A id \in RunIds :
           (DoDeleteRun(id) /\ Len(RowsOf(store, id)) = 0) =>
               /\ ret'.val = [kind |-> "bool", existed |-> FALSE]
               /\ GetAllResults(store') = GetAllResults(store)
               /\ store'.blobs = store.blobs]_vars

\* delete_run returned False on a store that holds rows and telemetry files.
C20_Witness ==
    /\ ret.op = "delete_run"
    /\ ret.val = [kind |-> "bool", existed |-> FALSE]
    /\ Len(GetAllResults(store)) > 0
    /\ \A i \in 1..Len(store.ledger) : store.ledger[i].run_id # ret.args[1]
    /\ DOMAIN store.blobs # {}

\* C21: when live optimize calls of different labels interleave, each call
\* returns what its own backend run gives: the record of that run, or the
\* failure of that run.
C21_InterleavedCallsOwnRecord ==
    \A v \in SpecLabels :
        inflight[v].pc = "done" =>
            inflight[v].val = OptimizeLiveResult(inflight[v].track, Val(inflight[v].run))

\* What load_track_data gives the synthesizer for the track name; an empty
\* name is not loaded.
TrackData(track_name) ==
    IF track_name = "" THEN [kind |-> "None"] ELSE LoadTrackData(Dir(track_name))
\* The track yields a centerline with samples.
UsableCenterline(data) ==
    /\ data.kind = "geometry"
    /\ ~IsNone(data.geometry.centerline.x)
    /\ Len(Val(data.geometry.centerline.x)) > 0

\* C22: the synthesizer returns a record; without a usable centerline its
\* path is the 500 x 300 ellipse at the requested number of points, and with
\* one its path is the centerline of the track, whatever number was requested.
C22_EllipseFallback ==
    (mock_mode /\ ret.op = "optimize") =>
        Bind(TrackData(ret.args[2]), LAMBDA data :
            /\ ret.val.kind = "record"
            /\ IF UsableCenterline(data)
               THEN /\ ret.val.x = [list |-> Val(data.geometry.centerline.x)]
                    /\ ret.val.y = [list |-> Val(data.geometry.centerline.y)]
               ELSE /\ ret.val.x = [list |-> EllipseX(ret.args[3])]
                    /\ ret.val.y = [list |-> EllipseY(ret.args[3])]
                    /\ Len(ret.val.u.list) = ret.args[3])

\* C23: the s channel of a record that live optimize returns is the
\* arclength downloaded from the track before the run, whatever arclength
\* channels the run left among its outputs.
C23_ArclengthFromTrack ==
    (~mock_mode /\ ret.op = "optimize" /\ ret.val.kind = "record") =>
        ret.val.s = [list |-> Val(obs.run).s]

\* A record of a run whose own arclength channels differ from the track's.
C23_Witness ==
    /\ ~mock_mode /\ ret.op = "optimize" /\ ret.val.kind = "record"
    /\ {"s", "arclength"} \subseteq DOMAIN Val(obs.run).out
    /\ Val(obs.run).out["s"].v # Val(obs.run).s
    /\ Val(obs.run).out["arclength"].v # Val(obs.run).s
    /\ ret.val.s = [list |-> Val(obs.run).s]

\* C24: mock_mode holds exactly when lib is unset (the import failed at
\* construction), no create_vehicle, create_track or optimize call changes
\* mock_mode or lib, and in mock mode no call changes the backend.
C24_ModeFixedAtConstruction ==
    [][/\ mock_mode <=> IsNone(lib)
       /\ mock_mode' = mock_mode
       /\ lib' = lib
       /\ mock_mode => backend' = backend]_vars

\* Mock mode after a create_vehicle call: nothing is registered.
C24_Witness ==
    /\ mock_mode /\ IsNone(lib)
    /\ ret.op = "create_vehicle" /\ ret.val.kind = "None"
    /\ backend.vehicles = {} /\ backend.tracks = {}

\* Both boundaries of a geometry carry elevation, of one length.
ElevationOnBoth(g) ==
    /\ Truthy(g.left.z) /\ Truthy(g.right.z)
    /\ Len(Val(g.left.z)) = Len(Val(g.right.z))
\* The horizontal and the vertical offset from left[i] to right[i].
OffsetW(g, i) ==
    Hypot(Val(g.right.x)[i] - Val(g.left.x)[i], Val(g.right.y)[i] - Val(g.left.y)[i])
OffsetDz(g, i) == Val(g.right.z)[i] - Val(g.left.z)[i]

\* C25: when both boundaries carry elevation of one length, banking has an
\* entry per boundary sample; the entry is 0 where the horizontal offset
\* between the boundaries is at most 0.1, and the angle atan2(dz, w) in
\* degrees elsewhere.
C25_BankingPerSample ==
    (ReturnedGeometry /\ ElevationOnBoth(Geometry)) =>
        /\ Len(Geometry.banking) = Len(Val(Geometry.left.z))
        /\ \A i \in 1..Len(Geometry.banking) :
               Bind(OffsetW(Geometry, i), LAMBDA w :
                   IF w <= W_HORIZ_MIN THEN Geometry.banking[i] = 0
                   ELSE Geometry.banking[i] = Atan2Deg(OffsetDz(Geometry, i), w))

\* A geometry with a sample where the boundaries coincide horizontally at
\* different heights (banking 0) and a sample where they are apart (an angle).
C25_Witness ==
    /\ ReturnedGeometry /\ ElevationOnBoth(Geometry)
    /\ \E i \in 1..Len(Geometry.banking) :
           OffsetW(Geometry, i) <= W_HORIZ_MIN /\ OffsetDz(Geometry, i) # 0
    /\ \E i \in 1..Len(Geometry.banking) :
           OffsetW(Geometry, i) > W_HORIZ_MIN /\ Geometry.banking[i] # 0

\* A step in which a save_run call returned.
SaveReturned == Len(store'.returned) = Len(store.returned) + 1

\* C26: a save_run that returns adds one row after the rows of the ledger
\* and leaves those as they were; the header line is written by the save
\* that creates the file and by no other; a save_run that does not return
\* leaves the ledger alone.
C26_LedgerAppendOnly ==
    [][IF SaveReturned
       THEN /\ Len(store'.ledger) = Len(store.ledger) + 1
            /\ SubSeq(store'.ledger, 1, Len(store.ledger)) = store.ledger
            /\ store'.header_lines = 1
            /\ store.header_lines = 0 <=> Len(store.ledger) = 0
       ELSE /\ store'.ledger = store.ledger
            /\ store'.header_lines = store.header_lines]_vars

\* A second row in the ledger under the one header line.
C26_Witness ==
    /\ ret.op = "save_run" /\ ret.val.kind = "str"
    /\ Len(store.ledger) = 2
    /\ store.ledger[1].run_id # store.ledger[2].run_id
    /\ store.header_lines = 1

\* The last row of the ledger and the record of the last save that returned.
LastRow == store.ledger[Len(store.ledger)]
LastSaved == store.returned[Len(store.returned)].record
\* m/s to km/h, in thousandths.
Kmh(u) == (u * 36) \div 10

\* C27: the row that a save_run appends carries the last sample of time as
\* lap_time_s, the largest sample of u times 3.6 as max_speed_kmh, and as
\* telemetry_file the name of the file that holds the record of that call.
C27_SummaryRowValues ==
    (ret.op = "save_run" /\ ret.val.kind = "str") =>
        /\ LastRow.run_id = ret.val.run_id
        /\ LastRow.lap_time_s = LastSaved.time.list[Len(LastSaved.time.list)]
        /\ \A i \in 1..Len(LastSaved.u.list) : Kmh(LastSaved.u.list[i]) <= LastRow.max_speed_kmh
        /\ \E i \in 1..Len(LastSaved.u.list) : Kmh(LastSaved.u.list[i]) = LastRow.max_speed_kmh
        /\ LastRow.telemetry_file \in DOMAIN store.blobs
        /\ \A c \in ColumnSet :
               ReadCsv(store.blobs[LastRow.telemetry_file])[c] = LastSaved[c].list

\* A row appended after another one, of a lap that takes time.
C27_Witness ==
    /\ ret.op = "save_run" /\ ret.val.kind = "str"
    /\ Len(store.ledger) = 2
    /\ LastRow.lap_time_s > 0
    /\ LastRow.max_speed_kmh > LastSaved.u.list[1]

\* The three lists get_coords reads from one section of the source.
CoordsOf(section_name) ==
    Bind(GetCoords(Source, section_name), LAMBDA c : [x |-> c.x, y |-> c.y, z |-> c.z])

\* C28: the right boundary of a returned geometry is read from the section
\* right_boundary when the track file has one and from right_measured_boundary
\* when it has not; it is absent exactly when the file has neither section.
C28_RightBoundaryBothNames ==
    ReturnedGeometry =>
        /\ ~IsNone(Source.right_boundary) => Geometry.right = CoordsOf("right_boundary")
        /\ (IsNone(Source.right_boundary) /\ ~IsNone(Source.right_measured_boundary))
               => Geometry.right = CoordsOf("right_measured_boundary")
        /\ IsNone(Geometry.right.x)
               <=> (IsNone(Source.right_boundary) /\ IsNone(Source.right_measured_boundary))

\* A file with the alternate section only, whose samples are returned.
C28_Witness ==
    /\ ReturnedGeometry
    /\ IsNone(Source.right_boundary)
    /\ ~IsNone(Source.right_measured_boundary)
    /\ Truthy(Geometry.right.x)
    /\ Truthy(Geometry.right.z)

\* C29: after a live optimize call has returned, with a record or with None,
\* the backend holds no output variable under the prefix run/.
C29_NoRunVariablesLeft ==
    (~mock_mode /\ ret.op = "optimize") => IsNone(backend.outputs)

\* The entries of the backend under every name but one are the same before
\* and after the step.
OthersKept(label) ==
    /\ backend'.vehicles \ {label} = backend.vehicles \ {label}
    /\ backend'.tracks \ {label} = backend.tracks \ {label}

\* C30: create_vehicle(label, source) changes no backend entry but the one
\* named label, and optimize changes none: the track and the vehicles
\* registered under other names are registered after the call as before it.
C30_CreateVehicleFrame ==
    [][/\ ret'.op = "create_vehicle" =>
              /\ OthersKept(ret'.args[1])
              /\ (TRACK # ret'.args[1] /\ TRACK \in backend.tracks) => TRACK \in backend'.tracks
       /\ ret'.op = "optimize" =>
              /\ backend'.vehicles = backend.vehicles
              /\ backend'.tracks = backend.tracks]_vars

\* A vehicle registered next to the track and to a vehicle of another name.
C30_Witness ==
    /\ ~mock_mode /\ ret.op = "create_vehicle" /\ ret.val.kind = "None"
    /\ ret.args[1] = "car_B"
    /\ backend.vehicles = {"car_A", "car_B"}
    /\ TRACK \in backend.tracks

====
